---- MODULE Spec2Model ----
(***************************************************************************)
(* Model of the Prometheus end-to-end tests of the origin repository       *)
(* (test/extended/prometheus): the [Late] Alerts test, that classifies the *)
(* series returned by the watchdog, firing-alert and pending-alert         *)
(* queries, and the polling loop of the metrics path, together with the    *)
(* helpers MetricConditions.Matches and RunQueries they rely on; the polls *)
(* of the targets, prometheusTargets.Expect and the secure-channel check;  *)
(* and Get of the lister of applied cluster resource quotas.               *)
(*                                                                         *)
(* A label set is a function from label names to values.  A violation      *)
(* description, a string built by fmt.Sprintf in the source, is a record   *)
(* holding the arguments of the format: two descriptions are the same      *)
(* string exactly when the records are equal.  A message built by          *)
(* strings.Join(set.List(), "\n") is the sequence of its lines.            *)
(***************************************************************************)
EXTENDS Integers, Sequences, FiniteSets, TLC

VARIABLES
    test,                          \* the g.It block that is run
    pc,                            \* position in the test
    issued,                        \* the backend calls made so far, in order
    callErr,                       \* whether the last of them returned an error
    returned,                      \* history: the result of each RunQuery that succeeded, in order
    indicator,                     \* samples of the watchdog firing/absent indicator over the window
    result,                        \* result.Data.Result of the last RunQuery
    idx,                           \* position of the range loop in result
    knownViolations,
    unexpectedViolations,
    unexpectedViolationsAsFlakes,
    debug,
    failure,                       \* framework.Failf / failed o.Expect message
    flake,                         \* testresult.Flakef message
    logs,                          \* framework.Logf messages
    elapsed,                       \* seconds since wait.PollImmediate was called
    metrics,                       \* metric families parsed by the last attempt
    args,                          \* arguments of the helper under test
    ret,                           \* its return value
    provider,                      \* e2e.TestContext.Provider
    targets,                       \* Data.ActiveTargets of the last targets response that was parsed
    lastErrs,                      \* the errors kept by the closure of the targets poll
    insecureTargets,               \* the errors of the secure-channel check
    indexer                        \* cache.Indexer of the quota lister: key -> object

vars == <<test, pc, issued, callErr, returned, indicator, result, idx, knownViolations,
          unexpectedViolations, unexpectedViolationsAsFlakes, debug,
          failure, flake, logs, elapsed, metrics, args, ret,
          provider, targets, lastErrs, insecureTargets, indexer>>

----------------------------------------------------------------------------
(* Bounds *)

MaxSeries == 2      \* series returned by one alert query
MaxWindow == 3      \* 1s-resolution samples of the watchdog indicator
MaxConds == 2       \* conditions of a MetricConditions list given to Matches
MaxQueries == 2     \* queries of a RunQueries mapping
MaxDefects == 2     \* differences between a targets response and the response of a healthy cluster

----------------------------------------------------------------------------
(* Label sets and series *)

NoLabels == [k \in {} |-> ""]

\* Go map lookup: the zero value "" for a missing key
Get(m, k) == IF k \in DOMAIN m THEN m[k] ELSE ""

\* series the firing-alerts query can return
FiringUniverse ==
    { [metric |-> [alertname |-> "AggregatedAPIDown", alertstate |-> "firing",
                   name |-> "v1alpha1.wardle.example.com",
                   prometheus |-> "openshift-monitoring/k8s"], value |-> 1],
      [metric |-> [alertname |-> "AggregatedAPIDown", alertstate |-> "firing",
                   name |-> "v1alpha1.wardle.example.com",
                   prometheus |-> "openshift-user-workload-monitoring/user-workload"], value |-> 1],
      [metric |-> [alertname |-> "AggregatedAPIDown", alertstate |-> "firing",
                   name |-> "v1beta1.metrics.k8s.io",
                   prometheus |-> "openshift-monitoring/k8s"], value |-> 1],
      [metric |-> [alertname |-> "KubePodCrashLooping", alertstate |-> "firing",
                   severity |-> "warning"], value |-> 1] }

\* series the pending-alerts query can return
PendingUniverse ==
    { [metric |-> [alertname |-> "HighOverallControlPlaneCPU", alertstate |-> "pending",
                   severity |-> "warning"], value |-> 1],
      [metric |-> [alertname |-> "KubePodCrashLooping", alertstate |-> "pending",
                   severity |-> "warning"], value |-> 1],
      [metric |-> [alertname |-> "KubePodCrashLooping", alertstate |-> "pending",
                   severity |-> "warning",
                   prometheus |-> "openshift-monitoring/k8s"], value |-> 1],
      [metric |-> [alertname |-> "AggregatedAPIDown", alertstate |-> "pending",
                   name |-> "v1alpha1.wardle.example.com"], value |-> 1] }

\* sequences over S of length at most n
SeqUpTo(S, n) == UNION { [1..k -> S] : k \in 0..n }

----------------------------------------------------------------------------
(* helper.MetricConditions *)

NoCause == [Selector |-> NoLabels, Text |-> ""]     \* the nil *MetricCondition

firingAlertsWithBugs ==
    << [Selector |-> [alertname |-> "AggregatedAPIDown", name |-> "v1alpha1.wardle.example.com"],
        Text |-> "https://bugzilla.redhat.com/show_bug.cgi?id=1933144"] >>

pendingAlertsWithBugs == << >>

allowedPendingAlerts ==
    << [Selector |-> [alertname |-> "HighOverallControlPlaneCPU"],
        Text |-> "high CPU utilization during e2e runs is normal"] >>

\* A series matches a selector if, for every key of the selector, the series
\* carries that key with an identical value; the keys are tried one by one.
RECURSIVE SelectorMatchesKeys(_, _, _)
SelectorMatchesKeysAny(keys, selector, metric) ==
    IF keys = {} THEN FALSE
    ELSE LET k == CHOOSE x \in keys : TRUE
         IN IF k \in DOMAIN metric /\ metric[k] = selector[k] THEN TRUE
            ELSE SelectorMatchesKeys(keys \ {k}, selector, metric)

SelectorMatchesKeys(keys, selector, metric) ==
    IF keys = {} THEN TRUE
    ELSE LET k == CHOOSE x \in keys : TRUE
         IN IF k \in DOMAIN metric /\ metric[k] = selector[k]
            THEN SelectorMatchesKeys(keys \ {k}, selector, metric)
            ELSE FALSE

SelectorMatches(selector, metric) == SelectorMatchesKeys(DOMAIN selector, selector, metric)

\* MetricConditions.Matches: the first condition of the list, in order, whose
\* selector matches the series, or nil.
RECURSIVE MatchesFrom(_, _, _)
MatchesLast(conds, series, i) ==
    IF i > Len(conds) THEN NoCause
    ELSE LET later == MatchesFrom(conds, series, i + 1)
         IN IF later # NoCause THEN later
            ELSE IF SelectorMatches(conds[i].Selector, series.metric) THEN conds[i]
            ELSE NoCause

MatchesFrom(conds, series, i) ==
    IF i > Len(conds) THEN NoCause
    ELSE IF SelectorMatches(conds[i].Selector, series.metric) THEN conds[i]
    ELSE MatchesFrom(conds, series, i + 1)

Matches(conds, series) == MatchesFrom(conds, series, 1)

----------------------------------------------------------------------------
(* Violation descriptions *)

\* helper.StripLabels: the label set without the named labels
StripLabels(metric, names) == [k \in DOMAIN metric \ names |-> metric[k]]

StrippedAlertOnly == {"alertname", "alertstate"}

Stripped == {"alertname", "alertstate", "prometheus"}

\* fmt.Sprintf("alert %s <verb> for %s seconds with labels: %s", ...)
Violation(verb, series) ==
    [verb |-> verb, alertname |-> Get(series.metric, "alertname"), value |-> series.value,
     labels |-> StripLabels(series.metric, Stripped), note |-> "", text |-> ""]

FiringViolation(series) == Violation("fired", series)

PendingViolationFired(series) == Violation("fired", series)

PendingViolation(series) == Violation("pending", series)

\* fmt.Sprintf("%s (open bug: %s)", violation, cause.Text)
OpenBug(violation, cause) == [violation EXCEPT !.note = "open bug", !.text = cause.Text]

\* fmt.Sprintf("%s (allowed: %s)", violation, cause.Text)
Allowed(violation, cause) == [violation EXCEPT !.note = "allowed", !.text = cause.Text]

WatchdogViolation ==
    [verb |-> "Watchdog alert had missing intervals during the run",
     alertname |-> "Watchdog", value |-> 0, labels |-> NoLabels, note |-> "", text |-> ""]

----------------------------------------------------------------------------
(* sets.String.List: the members in ascending order of their text *)

AlertNames == << "AggregatedAPIDown", "HighOverallControlPlaneCPU", "KubePodCrashLooping", "Watchdog" >>

LabelSets == << [name |-> "v1alpha1.wardle.example.com"], [name |-> "v1beta1.metrics.k8s.io"],
                [severity |-> "warning"], NoLabels >>

Notes == << "", "allowed", "open bug" >>

IndexOf(seq, x) ==
    IF \E i \in 1..Len(seq) : seq[i] = x THEN CHOOSE i \in 1..Len(seq) : seq[i] = x ELSE 0

\* position of a description in the lexicographic order of the formatted texts:
\* "Watchdog ..." sorts before "alert ...", then the alert name, the verb, the
\* value, the labels and the parenthesised note decide
SortKey(d) ==
    IF d = WatchdogViolation THEN 0
    ELSE 1 + IndexOf(Notes, d.note)
           + 4 * (IndexOf(LabelSets, d.labels)
           + 8 * (d.value
           + 8 * ((IF d.verb = "fired" THEN 0 ELSE 1)
           + 2 * IndexOf(AlertNames, d.alertname))))

RECURSIVE List(_)
ListFirst(s) ==
    IF s = {} THEN << >>
    ELSE << CHOOSE x \in s : \A y \in s : SortKey(x) <= SortKey(y) >>

List(s) ==
    IF s = {} THEN << >>
    ELSE LET m == CHOOSE x \in s : \A y \in s : SortKey(x) <= SortKey(y)
         IN <<m>> \o List(s \ {m})

NoMsg == [kind |-> "", fmt |-> "", lines |-> << >>]

Msg(kind, fmt, lines) == [kind |-> kind, fmt |-> fmt, lines |-> lines]

----------------------------------------------------------------------------
(* The watchdog query *)

\* changes(v[window:1s]): the number of times the sample value changes
RECURSIVE ChangesFrom(_, _)
ChangesFrom(samples, i) ==
    IF i >= Len(samples) THEN 0
    ELSE (IF samples[i] # samples[i + 1] THEN 1 ELSE 0) + ChangesFrom(samples, i + 1)

Changes(samples) == ChangesFrom(samples, 1)

\* changes(...) > 1: one series when the indicator changed more than once
WatchdogResultAny(samples) ==
    IF Changes(samples) > 0 THEN << [metric |-> NoLabels, value |-> Changes(samples)] >> ELSE << >>

WatchdogResult(samples) ==
    IF Changes(samples) > 1 THEN << [metric |-> NoLabels, value |-> Changes(samples)] >> ELSE << >>

----------------------------------------------------------------------------
(* Classification of one series (the bodies of the two range loops) *)

Sets == [known |-> knownViolations, unexpected |-> unexpectedViolations,
         flakes |-> unexpectedViolationsAsFlakes, debug |-> debug]

NoSets == [known |-> {}, unexpected |-> {}, flakes |-> {}, debug |-> {}]

ClassifyFiringWithKnownOnly(conds, s, series) ==
    LET violation == FiringViolation(series)
        cause == Matches(conds, series)
    IN IF cause # NoCause
       THEN [s EXCEPT !.known = @ \cup {OpenBug(violation, cause)}]
       ELSE s

ClassifyFiringWith(conds, s, series) ==
    LET violation == FiringViolation(series)
        cause == Matches(conds, series)
    IN IF cause # NoCause
       THEN [s EXCEPT !.known = @ \cup {OpenBug(violation, cause)}]
       ELSE [s EXCEPT !.unexpected = @ \cup {violation}]

ClassifyFiring(s, series) == ClassifyFiringWith(firingAlertsWithBugs, s, series)

ClassifyPendingWithFallThrough(allowed, bugs, s, series) ==
    LET violation == PendingViolation(series)
        allow == Matches(allowed, series)
        cause == Matches(bugs, series)
        logged == IF allow # NoCause
                  THEN [s EXCEPT !.debug = @ \cup {Allowed(violation, allow)}]
                  ELSE s
    IN IF cause # NoCause
       THEN [logged EXCEPT !.known = @ \cup {OpenBug(violation, cause)}]
       ELSE [logged EXCEPT !.flakes = @ \cup {violation}]

ClassifyPendingWith(allowed, bugs, s, series) ==
    LET violation == PendingViolation(series)
        allow == Matches(allowed, series)
        cause == Matches(bugs, series)
    IN IF allow # NoCause
       THEN [s EXCEPT !.debug = @ \cup {Allowed(violation, allow)}]
       ELSE IF cause # NoCause
       THEN [s EXCEPT !.known = @ \cup {OpenBug(violation, cause)}]
       ELSE [s EXCEPT !.flakes = @ \cup {violation}]

ClassifyPending(s, series) ==
    ClassifyPendingWith(allowedPendingAlerts, pendingAlertsWithBugs, s, series)

SetSets(s) ==
    /\ knownViolations' = s.known
    /\ unexpectedViolations' = s.unexpected
    /\ unexpectedViolationsAsFlakes' = s.flakes
    /\ debug' = s.debug

----------------------------------------------------------------------------
(* The [Late] Alerts test *)

Tests == {"LateAlerts", "MetricsPath"}

\* e2e.TestContext.Provider: ibmcloud.ProviderName, or another provider
ibmcloud == "ibmcloud"
Providers == {ibmcloud, "aws"}

Init ==
    /\ test \in Tests
    /\ pc = "BeforeEach"
    /\ issued = << >>
    /\ callErr = FALSE
    /\ returned = << >>
    /\ indicator = << >>
    /\ result = << >>
    /\ idx = 0
    /\ knownViolations = {}
    /\ unexpectedViolations = {}
    /\ unexpectedViolationsAsFlakes = {}
    /\ debug = {}
    /\ failure = NoMsg
    /\ flake = NoMsg
    /\ logs = << >>
    /\ elapsed = 0
    /\ metrics = << >>
    /\ args = << >>
    /\ ret = << >>
    /\ provider = "aws"            \* read by the targets poll only: see InitPolls
    /\ targets = << >>
    /\ lastErrs = << >>
    /\ insecureTargets = << >>
    /\ indexer = << >>

ExpectFailedRetry(description) ==
    /\ failure' = Msg("Expect", description, << >>)
    /\ pc' = pc

\* o.Expect(err).NotTo(o.HaveOccurred(), description): the test stops here
ExpectFailed(description) ==
    /\ failure' = Msg("Expect", description, << >>)
    /\ pc' = "failed"

\* a call of the backend through the exec pod, and whether it returned an error
Call(name, err) == issued' = Append(issued, name) /\ callErr' = err

\* g.BeforeEach: helper.LocatePrometheus
BeforeEach ==
    /\ pc = "BeforeEach"
    /\ \E ok \in BOOLEAN :
         IF ok
         THEN pc' = "It" /\ UNCHANGED failure
         ELSE /\ failure' = Msg("Failf", "Prometheus could not be located on this cluster, failing prometheus test", << >>)
              /\ pc' = "failed"
    /\ UNCHANGED <<provider, targets, lastErrs, insecureTargets, indexer>>
    /\ UNCHANGED <<test, issued, callErr, returned, indicator, result, idx, knownViolations, unexpectedViolations,
                   unexpectedViolationsAsFlakes, debug, flake, logs, elapsed, metrics, args, ret>>

\* the version-skew switch, the namespace and the exec pod
LateSetup ==
    /\ pc = "It" /\ test = "LateAlerts"
    /\ \E skew \in BOOLEAN : pc' = IF skew THEN "skipped" ELSE "watchdog"
    /\ UNCHANGED <<provider, targets, lastErrs, insecureTargets, indexer>>
    /\ UNCHANGED <<test, issued, callErr, returned, indicator, result, idx, knownViolations, unexpectedViolations,
                   unexpectedViolationsAsFlakes, debug, failure, flake, logs, elapsed, metrics, args, ret>>

WatchdogQuery ==
    /\ pc = "watchdog"
    /\ \E err \in BOOLEAN, samples \in SeqUpTo({0, 1}, MaxWindow) \ {<< >>} :
         /\ Call("watchdog", err)
         /\ IF err
            THEN /\ ExpectFailed("unable to check watchdog alert over test window")
                 /\ UNCHANGED <<indicator, result, returned, unexpectedViolations>>
            ELSE /\ indicator' = samples
                 /\ result' = WatchdogResult(samples)
                 /\ returned' = Append(returned, result')
                 /\ unexpectedViolations' =
                       IF Len(result') > 0 THEN unexpectedViolations \cup {WatchdogViolation}
                       ELSE unexpectedViolations
                 /\ pc' = "firing"
                 /\ UNCHANGED failure
    /\ UNCHANGED <<provider, targets, lastErrs, insecureTargets, indexer>>
    /\ UNCHANGED <<test, idx, knownViolations, unexpectedViolationsAsFlakes, debug, flake, logs,
                   elapsed, metrics, args, ret>>

FiringQuery ==
    /\ pc = "firing"
    /\ \E err \in BOOLEAN, series \in SeqUpTo(FiringUniverse, MaxSeries) :
         /\ Call("firing", err)
         /\ IF err
            THEN /\ ExpectFailed("unable to check firing alerts during test")
                 /\ UNCHANGED <<result, returned, idx>>
            ELSE /\ result' = series
                 /\ returned' = Append(returned, series)
                 /\ idx' = 1
                 /\ pc' = IF Len(series) = 0 THEN "pending" ELSE "firingLoop"
                 /\ UNCHANGED failure
    /\ UNCHANGED <<provider, targets, lastErrs, insecureTargets, indexer>>
    /\ UNCHANGED <<test, indicator, knownViolations, unexpectedViolations,
                   unexpectedViolationsAsFlakes, debug, flake, logs, elapsed, metrics, args, ret>>

\* one iteration of the loop over the firing series
FiringSeries ==
    /\ pc = "firingLoop"
    /\ SetSets(ClassifyFiring(Sets, result[idx]))
    /\ idx' = idx + 1
    /\ pc' = IF idx = Len(result) THEN "pending" ELSE "firingLoop"
    /\ UNCHANGED <<provider, targets, lastErrs, insecureTargets, indexer>>
    /\ UNCHANGED <<test, issued, callErr, returned, indicator, result, failure, flake, logs, elapsed, metrics, args, ret>>

PendingQuery ==
    /\ pc = "pending"
    /\ \E err \in BOOLEAN, series \in SeqUpTo(PendingUniverse, MaxSeries) :
         /\ Call("pending", err)
         /\ IF err
            THEN /\ ExpectFailed("unable to retrieve pending alerts after upgrade")
                 /\ UNCHANGED <<result, returned, idx>>
            ELSE /\ result' = series
                 /\ returned' = Append(returned, series)
                 /\ idx' = 1
                 /\ pc' = IF Len(series) = 0 THEN "verdict" ELSE "pendingLoop"
                 /\ UNCHANGED failure
    /\ UNCHANGED <<provider, targets, lastErrs, insecureTargets, indexer>>
    /\ UNCHANGED <<test, indicator, knownViolations, unexpectedViolations,
                   unexpectedViolationsAsFlakes, debug, flake, logs, elapsed, metrics, args, ret>>

\* one iteration of the loop over the pending series
PendingSeries ==
    /\ pc = "pendingLoop"
    /\ SetSets(ClassifyPending(Sets, result[idx]))
    /\ idx' = idx + 1
    /\ pc' = IF idx = Len(result) THEN "verdict" ELSE "pendingLoop"
    /\ UNCHANGED <<provider, targets, lastErrs, insecureTargets, indexer>>
    /\ UNCHANGED <<test, issued, callErr, returned, indicator, result, failure, flake, logs, elapsed, metrics, args, ret>>

UnexpectedFoundOrFlakes ==
    Cardinality(knownViolations \cup unexpectedViolations \cup unexpectedViolationsAsFlakes) > 0

\* len(unexpectedViolations) > 0
UnexpectedFound == Cardinality(unexpectedViolations) > 0

FlakesKnownOnly == knownViolations \cup unexpectedViolations

Flakes == knownViolations \cup unexpectedViolations \cup unexpectedViolationsAsFlakes

\* the lines of the log after the verdict: the allowed alerts first, and the
\* closing line unless framework.Failf stopped the test
VerdictLogs(failed) ==
    (IF debug # {}
     THEN << Msg("Logf", "Alerts were detected during test run which are allowed:", List(debug)) >>
     ELSE << >>)
    \o (IF failed THEN << >> ELSE << Msg("Logf", "No alerts fired during test run", << >>) >>)

\* as Verdict, with a Failf that does not stop the test
VerdictNoAbort ==
    /\ pc = "verdict"
    /\ logs' = logs \o VerdictLogs(FALSE)
    /\ failure' = IF UnexpectedFound
                  THEN Msg("Failf", "Unexpected alerts fired or pending after the test run:",
                           List(unexpectedViolations))
                  ELSE failure
    /\ flake' = IF Flakes # {}
                THEN Msg("Flakef", "Unexpected alert behavior during test:", List(Flakes))
                ELSE flake
    /\ pc' = IF UnexpectedFound THEN "failed" ELSE "done"
    /\ UNCHANGED <<provider, targets, lastErrs, insecureTargets, indexer>>
    /\ UNCHANGED <<test, issued, callErr, returned, indicator, result, idx, knownViolations, unexpectedViolations,
                   unexpectedViolationsAsFlakes, debug, elapsed, metrics, args, ret>>

Verdict ==
    /\ pc = "verdict"
    /\ logs' = logs \o VerdictLogs(UnexpectedFound)
    /\ IF UnexpectedFound
       THEN /\ failure' = Msg("Failf", "Unexpected alerts fired or pending after the test run:",
                              List(unexpectedViolations))
            /\ pc' = "failed"
            /\ UNCHANGED flake
       ELSE /\ flake' = IF Flakes # {}
                        THEN Msg("Flakef", "Unexpected alert behavior during test:", List(Flakes))
                        ELSE flake
            /\ pc' = "done"
            /\ UNCHANGED failure
    /\ UNCHANGED <<provider, targets, lastErrs, insecureTargets, indexer>>
    /\ UNCHANGED <<test, issued, callErr, returned, indicator, result, idx, knownViolations, unexpectedViolations,
                   unexpectedViolationsAsFlakes, debug, elapsed, metrics, args, ret>>

----------------------------------------------------------------------------
(* "should start and expose a secured proxy and unsecured metrics":        *)
(* the poll of the metrics path and the two checks that follow it          *)

Interval == 10
Timeout == 120

MetricNames == {"tsdb_samples_appended_total", "tsdb_head_samples_appended_total",
                "prometheus_tsdb_head_samples_appended_total"}

\* the counters of one metric family; << >> for a family that is not exposed
Counters == {<< >>, <<0>>, <<1>>, <<0, 1>>}

\* findCountersWithLabels(metrics[name], labels{}): with no label asked for,
\* the value of every counter of the family
findCountersWithLabels(families, name) == families[name]

\* the condition of the poll, once the metrics are parsed
SamplesAppended(families) ==
    \E name \in MetricNames :
        LET counts == findCountersWithLabels(families, name)
        IN Len(counts) # 0 /\ counts[1] > 0

MetricsSetup ==
    /\ pc = "It" /\ test = "MetricsPath"
    /\ pc' = "metricsPoll"
    /\ elapsed' = 0
    /\ UNCHANGED <<provider, targets, lastErrs, insecureTargets, indexer>>
    /\ UNCHANGED <<test, issued, callErr, returned, indicator, result, idx, knownViolations, unexpectedViolations,
                   unexpectedViolationsAsFlakes, debug, failure, flake, logs, metrics, args, ret>>

\* wait.PollImmediate: the condition did not hold; wait for the next tick, or
\* give up when the timeout has passed
PollAgainWithin(timeout, description) ==
    IF elapsed >= timeout
    THEN /\ failure' = Msg("Expect", description, << "timed out waiting for the condition" >>)
         /\ pc' = "failed"
         /\ UNCHANGED elapsed
    ELSE /\ elapsed' = elapsed + Interval
         /\ UNCHANGED <<pc, failure>>

PollAgain(description) == PollAgainWithin(Timeout, description)

\* one attempt of the condition of the metrics-path poll
MetricsAttempt ==
    /\ pc = "metricsPoll"
    /\ \E outcome \in {"err", "unparsable", "parsed"}, families \in [MetricNames -> Counters] :
         /\ Call("metrics", outcome = "err")
         /\ IF outcome = "err"
            THEN /\ logs' = Append(logs, Msg("Logf", "unable to get metrics", << >>))
                 /\ PollAgain("Did not find tsdb_samples_appended_total")
                 /\ UNCHANGED metrics
            ELSE IF outcome = "unparsable"
            THEN /\ ExpectFailed("TextToMetricFamilies")
                 /\ UNCHANGED <<logs, metrics, elapsed>>
            ELSE /\ metrics' = families
                 /\ IF SamplesAppended(families)
                    THEN pc' = "proxy403" /\ UNCHANGED <<failure, elapsed>>
                    ELSE PollAgain("Did not find tsdb_samples_appended_total")
                 /\ UNCHANGED logs
    /\ UNCHANGED <<provider, targets, lastErrs, insecureTargets, indexer>>
    /\ UNCHANGED <<test, returned, indicator, result, idx, knownViolations, unexpectedViolations,
                   unexpectedViolationsAsFlakes, debug, flake, args, ret>>

\* helper.ExpectURLStatusCodeExec(ns, execPod.Name, url, 403)
Proxy403 ==
    /\ pc = "proxy403"
    /\ \E err \in BOOLEAN :
         /\ Call("root", err)
         /\ IF err THEN ExpectFailed("ExpectURLStatusCodeExec")
            ELSE pc' = "token" /\ UNCHANGED failure
    /\ UNCHANGED <<provider, targets, lastErrs, insecureTargets, indexer>>
    /\ UNCHANGED <<test, returned, indicator, result, idx, knownViolations, unexpectedViolations,
                   unexpectedViolationsAsFlakes, debug, flake, logs, elapsed, metrics, args, ret>>

\* expectBearerTokenURLStatusCodeExec(ns, execPod.Name, url + "/graph", bearerToken, 200)
TokenAuth ==
    /\ pc = "token"
    /\ \E err \in BOOLEAN :
         /\ Call("graph", err)
         /\ IF err THEN ExpectFailed("expectBearerTokenURLStatusCodeExec")
            ELSE pc' = "targets" /\ UNCHANGED failure
    /\ UNCHANGED <<provider, targets, lastErrs, insecureTargets, indexer>>
    /\ UNCHANGED <<test, returned, indicator, result, idx, knownViolations, unexpectedViolations,
                   unexpectedViolationsAsFlakes, debug, flake, logs, elapsed, metrics, args, ret>>

----------------------------------------------------------------------------

Next ==
    \/ BeforeEach
    \/ LateSetup
    \/ WatchdogQuery
    \/ FiringQuery
    \/ FiringSeries
    \/ PendingQuery
    \/ PendingSeries
    \/ Verdict
    \/ MetricsSetup
    \/ MetricsAttempt
    \/ Proxy403
    \/ TokenAuth

Spec == Init /\ [][Next]_vars

----------------------------------------------------------------------------
(* The targets of Prometheus: prometheusTargets and its Expect             *)

\* A scrape URL is the sequence of its pieces: the scheme, "://", the host and
\* the segments of the path.  A pattern of the source is kept as written and
\* compiled to the scheme it asks for after ^, and to the path it asks for
\* before $ (none: the pattern ends with .*)
Patterns == {"^https://.*/metrics$", "^https://.*/metrics/cadvisor$", "^http://.*/metrics$", "^https://.*"}

Compile(pattern) ==
    CASE pattern = "^https://.*/metrics$" -> [scheme |-> "https", path |-> <<"/metrics">>]
      [] pattern = "^https://.*/metrics/cadvisor$" -> [scheme |-> "https", path |-> <<"/metrics", "/cadvisor">>]
      [] pattern = "^http://.*/metrics$" -> [scheme |-> "http", path |-> <<"/metrics">>]
      [] pattern = "^https://.*" -> [scheme |-> "https", path |-> << >>]

\* regexp.MustCompile(pattern).MatchString(url)
MatchString(pattern, url) ==
    LET re == Compile(pattern)
        n == Len(re.path)
    IN /\ Len(url) >= 2 + n
       /\ url[1] = re.scheme
       /\ url[2] = "://"
       /\ SubSeq(url, Len(url) - n + 1, Len(url)) = re.path

Nil == << >>

\* fmt.Errorf("no match for %v with health %s and scrape URL %s", ...)
NoMatch(l, health, scrapeURLPattern) ==
    [format |-> "no match for %v with health %s and scrape URL %s",
     l |-> l, health |-> health, scrapeURLPattern |-> scrapeURLPattern]

\* the range loop of Expect, from the i-th active target
RECURSIVE ExpectFrom(_, _, _, _, _)
ExpectFromAnyHealth(activeTargets, i, l, health, scrapeURLPattern) ==
    IF i > Len(activeTargets) THEN NoMatch(l, health, scrapeURLPattern)
    ELSE LET target == activeTargets[i]
         IN IF \E k \in DOMAIN l : Get(target.Labels, k) # l[k]
            THEN ExpectFrom(activeTargets, i + 1, l, health, scrapeURLPattern)
            ELSE IF ~MatchString(scrapeURLPattern, target.ScrapeUrl)
            THEN ExpectFrom(activeTargets, i + 1, l, health, scrapeURLPattern)
            ELSE Nil

ExpectFrom(activeTargets, i, l, health, scrapeURLPattern) ==
    IF i > Len(activeTargets) THEN NoMatch(l, health, scrapeURLPattern)
    ELSE LET target == activeTargets[i]
         IN IF \E k \in DOMAIN l : Get(target.Labels, k) # l[k]
            THEN ExpectFrom(activeTargets, i + 1, l, health, scrapeURLPattern)
            ELSE IF health # target.Health
            THEN ExpectFrom(activeTargets, i + 1, l, health, scrapeURLPattern)
            ELSE IF ~MatchString(scrapeURLPattern, target.ScrapeUrl)
            THEN ExpectFrom(activeTargets, i + 1, l, health, scrapeURLPattern)
            ELSE Nil

\* (t *prometheusTargets) Expect(l, health, scrapeURLPattern)
Expect(activeTargets, l, health, scrapeURLPattern) ==
    ExpectFrom(activeTargets, 1, l, health, scrapeURLPattern)

\* all(errs...): the errors that are not nil, in order
all(errs) == SelectSeq(errs, LAMBDA err : err # Nil)

Expectation(l, scrapeURLPattern) == [l |-> l, health |-> "up", scrapeURLPattern |-> scrapeURLPattern]

Job(job) == [job |-> job]

\* the expectations skipped on IBM Cloud: the control plane and the CVO
ControlPlane ==
    << Expectation(Job("api"), "^https://.*/metrics$"),
       Expectation(Job("controller-manager"), "^https://.*/metrics$"),
       Expectation(Job("apiserver"), "^https://.*/metrics$"),
       Expectation(Job("kube-controller-manager"), "^https://.*/metrics$"),
       Expectation(Job("scheduler"), "^https://.*/metrics$"),
       Expectation(Job("kube-state-metrics"), "^https://.*/metrics$"),
       Expectation(Job("cluster-version-operator"), "^https://.*/metrics$") >>

\* the expectations of every provider
Common ==
    << Expectation([job |-> "prometheus-k8s", namespace |-> "openshift-monitoring", pod |-> "prometheus-k8s-0"],
                   "^https://.*/metrics$"),
       Expectation(Job("kubelet"), "^https://.*/metrics$"),
       Expectation(Job("kubelet"), "^https://.*/metrics/cadvisor$"),
       Expectation(Job("node-exporter"), "^https://.*/metrics$"),
       Expectation(Job("prometheus-operator"), "^https://.*/metrics$"),
       Expectation(Job("alertmanager-main"), "^https://.*/metrics$"),
       Expectation(Job("crio"), "^http://.*/metrics$") >>

\* the expectation of the ingress test
Ingress == << Expectation(Job("router-internal-default"), "^https://.*/metrics$") >>

\* the results of targets.Expect for a list of expectations, in order
Expects(activeTargets, expectations) ==
    [i \in 1..Len(expectations) |->
        Expect(activeTargets, expectations[i].l, expectations[i].health, expectations[i].scrapeURLPattern)]

\* what /api/v1/targets answers

Target(labels, health, scheme, path) ==
    [Labels |-> labels, Health |-> health, ScrapeUrl |-> <<scheme, "://", "10.0.0.1:9100">> \o path]

Monitored(job, namespace) == Target([job |-> job, namespace |-> namespace], "up", "https", <<"/metrics">>)

\* the active targets of a cluster where every expected job is scraped
FullTargets ==
    << Monitored("api", "openshift-apiserver"),
       Monitored("controller-manager", "openshift-controller-manager"),
       Monitored("apiserver", "default"),
       Monitored("kube-controller-manager", "openshift-kube-controller-manager"),
       Monitored("scheduler", "openshift-kube-scheduler"),
       Monitored("kube-state-metrics", "openshift-monitoring"),
       Monitored("cluster-version-operator", "openshift-cluster-version"),
       Target([job |-> "prometheus-k8s", namespace |-> "openshift-monitoring", pod |-> "prometheus-k8s-1"],
              "up", "https", <<"/metrics">>),
       Target([job |-> "prometheus-k8s", namespace |-> "openshift-monitoring", pod |-> "prometheus-k8s-0"],
              "up", "https", <<"/metrics">>),
       Target([job |-> "kubelet", namespace |-> "kube-system"], "up", "https", <<"/metrics", "/cadvisor">>),
       Monitored("kubelet", "kube-system"),
       Monitored("node-exporter", "openshift-monitoring"),
       Monitored("prometheus-operator", "openshift-monitoring"),
       Monitored("alertmanager-main", "openshift-monitoring"),
       Target([job |-> "crio", namespace |-> "kube-system"], "up", "http", <<"/metrics">>),
       Monitored("router-internal-default", "openshift-ingress") >>

Defects == {"scheduler down", "cadvisor missing", "cadvisor http", "router missing", "ovnkube-node", "no job"}

IsCadvisor(target) == target.Labels.job = "kubelet" /\ target.ScrapeUrl[Len(target.ScrapeUrl)] = "/cadvisor"

\* the active targets of a cluster with the given defects
Response(defects) ==
    LET gone(target) == \/ "cadvisor missing" \in defects /\ IsCadvisor(target)
                        \/ "router missing" \in defects /\ target.Labels.job = "router-internal-default"
        kept == SelectSeq(FullTargets, LAMBDA target : ~gone(target))
        seen(target) == IF "scheduler down" \in defects /\ target.Labels.job = "scheduler"
                        THEN [target EXCEPT !.Health = "down"]
                        ELSE IF "cadvisor http" \in defects /\ IsCadvisor(target)
                        THEN [target EXCEPT !.ScrapeUrl[1] = "http"]
                        ELSE target
    IN [i \in 1..Len(kept) |-> seen(kept[i])]
       \o (IF "ovnkube-node" \in defects
           THEN << Target([job |-> "ovnkube-node", namespace |-> "openshift-ovn-kubernetes"], "up", "http", <<"/metrics">>) >>
           ELSE << >>)
       \o (IF "no job" \in defects
           THEN << Target([namespace |-> "default"], "up", "http", <<"/metrics">>) >>
           ELSE << >>)

Responses == { Response(defects) : defects \in { d \in SUBSET Defects : Cardinality(d) <= MaxDefects } }

----------------------------------------------------------------------------
(* The polls of the targets, and the secure-channel check                  *)

\* var lastErrs []error, and the call of wait.PollImmediate
TargetsSetup ==
    /\ pc = "targets"
    /\ pc' = "targetsPoll"
    /\ elapsed' = 0
    /\ lastErrs' = << >>
    /\ UNCHANGED <<provider, targets, insecureTargets, indexer>>
    /\ UNCHANGED <<test, issued, callErr, returned, indicator, result, idx, knownViolations, unexpectedViolations,
                   unexpectedViolationsAsFlakes, debug, failure, flake, logs, metrics, args, ret>>

\* lastErrs when the closure has looked at the active targets: the assignment
\* of the control-plane errors is skipped on IBM Cloud, the append is not
TargetsErrs(prov, errs, activeTargets) ==
    LET assigned == IF prov # ibmcloud THEN all(Expects(activeTargets, ControlPlane)) ELSE errs
    IN assigned \o all(Expects(activeTargets, Common))

Fetches == {"err", "unparsable", "parsed"}

\* one attempt of the condition of the targets poll
TargetsAttempt ==
    /\ pc = "targetsPoll"
    /\ \E outcome \in Fetches, activeTargets \in Responses :
         /\ Call("targets", outcome = "err")
         /\ IF outcome = "err"
            THEN /\ ExpectFailed("getBearerTokenURLViaPod")
                 /\ UNCHANGED <<targets, lastErrs, logs, elapsed>>
            ELSE IF outcome = "unparsable"
            THEN /\ ExpectFailed("json.Unmarshal")
                 /\ UNCHANGED <<targets, lastErrs, logs, elapsed>>
            ELSE /\ targets' = activeTargets
                 /\ lastErrs' = TargetsErrs(provider, lastErrs, activeTargets)
                 /\ IF Len(lastErrs') > 0
                    THEN /\ logs' = Append(logs, Msg("Logf", "missing some targets: %v", << >>))
                         /\ PollAgain("possibly some services didn't register ServiceMonitors to allow metrics collection")
                    ELSE /\ pc' = "secure"
                         /\ UNCHANGED <<failure, elapsed, logs>>
    /\ UNCHANGED <<provider, insecureTargets, indexer>>
    /\ UNCHANGED <<test, returned, indicator, result, idx, knownViolations, unexpectedViolations,
                   unexpectedViolationsAsFlakes, debug, flake, metrics, args, ret>>

exclude == {"crio", "ovnkube-master", "ovnkube-node"}

\* fmt.Errorf("following target does not secure metrics endpoint: %v", t.Labels["job"])
Insecure(job) == [format |-> "following target does not secure metrics endpoint: %v", job |-> job]

\* the range loop of the secure-channel check, from the i-th active target
RECURSIVE InsecureFrom(_, _)
InsecureFromAll(activeTargets, i) ==
    IF i > Len(activeTargets) THEN << >>
    ELSE LET t == activeTargets[i]
         IN IF ~MatchString("^https://.*", t.ScrapeUrl)
            THEN << Insecure(Get(t.Labels, "job")) >> \o InsecureFrom(activeTargets, i + 1)
            ELSE InsecureFrom(activeTargets, i + 1)

InsecureFrom(activeTargets, i) ==
    IF i > Len(activeTargets) THEN << >>
    ELSE LET t == activeTargets[i]
         IN IF Get(t.Labels, "job") \in exclude
            THEN InsecureFrom(activeTargets, i + 1)
            ELSE IF ~MatchString("^https://.*", t.ScrapeUrl)
            THEN << Insecure(Get(t.Labels, "job")) >> \o InsecureFrom(activeTargets, i + 1)
            ELSE InsecureFrom(activeTargets, i + 1)

\* verifying all targets are exposing metrics over secure channel
SecureChannel ==
    /\ pc = "secure"
    /\ \E outcome \in Fetches, activeTargets \in Responses :
         /\ Call("targets", outcome = "err")
         /\ IF outcome = "err"
            THEN /\ ExpectFailed("getBearerTokenURLViaPod")
                 /\ UNCHANGED <<targets, insecureTargets>>
            ELSE IF outcome = "unparsable"
            THEN /\ ExpectFailed("json.Unmarshal")
                 /\ UNCHANGED <<targets, insecureTargets>>
            ELSE /\ targets' = activeTargets
                 /\ insecureTargets' = InsecureFrom(activeTargets, 1)
                 /\ IF insecureTargets' = << >>
                    THEN pc' = "done" /\ UNCHANGED failure
                    ELSE ExpectFailed("some services expose metrics over insecure channel")
    /\ UNCHANGED <<provider, lastErrs, indexer>>
    /\ UNCHANGED <<test, returned, indicator, result, idx, knownViolations, unexpectedViolations,
                   unexpectedViolationsAsFlakes, debug, flake, logs, elapsed, metrics, args, ret>>

IngressTimeout == 240

\* should provide ingress metrics: var lastErrs []error, and the call of
\* wait.PollImmediate
IngressSetup ==
    /\ pc = "It" /\ test = "Ingress"
    /\ pc' = "ingressPoll"
    /\ elapsed' = 0
    /\ lastErrs' = << >>
    /\ UNCHANGED <<provider, targets, insecureTargets, indexer>>
    /\ UNCHANGED <<test, issued, callErr, returned, indicator, result, idx, knownViolations, unexpectedViolations,
                   unexpectedViolationsAsFlakes, debug, failure, flake, logs, metrics, args, ret>>

\* one attempt of the condition of the ingress poll
IngressAttempt ==
    /\ pc = "ingressPoll"
    /\ \E outcome \in Fetches, activeTargets \in Responses :
         /\ Call("targets", outcome = "err")
         /\ IF outcome = "err"
            THEN /\ ExpectFailed("getBearerTokenURLViaPod")
                 /\ UNCHANGED <<targets, lastErrs, logs, elapsed>>
            ELSE IF outcome = "unparsable"
            THEN /\ ExpectFailed("json.Unmarshal")
                 /\ UNCHANGED <<targets, lastErrs, logs, elapsed>>
            ELSE /\ targets' = activeTargets
                 /\ lastErrs' = all(Expects(activeTargets, Ingress))
                 /\ IF Len(lastErrs') > 0
                    THEN /\ logs' = Append(logs, Msg("Logf", "missing some targets: %v", << >>))
                         /\ PollAgainWithin(IngressTimeout, "ingress router cannot report metrics to monitoring system")
                    ELSE /\ pc' = "ingressQueries"
                         /\ UNCHANGED <<failure, elapsed, logs>>
    /\ UNCHANGED <<provider, insecureTargets, indexer>>
    /\ UNCHANGED <<test, returned, indicator, result, idx, knownViolations, unexpectedViolations,
                   unexpectedViolationsAsFlakes, debug, flake, metrics, args, ret>>

----------------------------------------------------------------------------
(* MetricConditions.Matches applied to a list of conditions and a series   *)

CondUniverse ==
    { firingAlertsWithBugs[1],
      allowedPendingAlerts[1],
      [Selector |-> [alertname |-> "AggregatedAPIDown"], Text |-> "https://bugzilla.redhat.com/show_bug.cgi?id=1"],
      [Selector |-> [severity |-> "warning"], Text |-> "https://bugzilla.redhat.com/show_bug.cgi?id=2"],
      [Selector |-> NoLabels, Text |-> "https://bugzilla.redhat.com/show_bug.cgi?id=3"] }

Idle ==
    /\ issued = << >>
    /\ callErr = FALSE
    /\ returned = << >>
    /\ indicator = << >>
    /\ result = << >>
    /\ idx = 0
    /\ knownViolations = {}
    /\ unexpectedViolations = {}
    /\ unexpectedViolationsAsFlakes = {}
    /\ debug = {}
    /\ failure = NoMsg
    /\ flake = NoMsg
    /\ logs = << >>
    /\ elapsed = 0
    /\ metrics = << >>
    /\ targets = << >>
    /\ lastErrs = << >>
    /\ insecureTargets = << >>

InitMatches ==
    /\ test = "Matches"
    /\ pc = "call"
    /\ args \in [conds : SeqUpTo(CondUniverse, MaxConds), series : FiringUniverse \cup PendingUniverse]
    /\ ret = << >>
    /\ provider = ""
    /\ indexer = << >>
    /\ Idle

\* the condition returned for the series, and the classification of the series
\* when the list is the known-bug list of the firing loop, the allow-list of
\* the pending loop, or the known-bug list of the pending loop
CallMatches ==
    /\ pc = "call" /\ test = "Matches"
    /\ ret' = [cause |-> Matches(args.conds, args.series),
               firing |-> ClassifyFiringWith(args.conds, NoSets, args.series),
               allowed |-> ClassifyPendingWith(args.conds, << >>, NoSets, args.series),
               bugs |-> ClassifyPendingWith(<< >>, args.conds, NoSets, args.series)]
    /\ pc' = "returned"
    /\ UNCHANGED <<provider, targets, lastErrs, insecureTargets, indexer>>
    /\ UNCHANGED <<test, issued, callErr, returned, indicator, result, idx, knownViolations, unexpectedViolations,
                   unexpectedViolationsAsFlakes, debug, failure, flake, logs, elapsed, metrics, args>>

NextMatches == CallMatches

SpecMatches == InitMatches /\ [][NextMatches]_vars

----------------------------------------------------------------------------
(* helper.RunQueries applied to a mapping query -> expected outcome        *)

QueryUniverse ==
    { "ALERTS{alertstate=~\"firing|pending\",alertname=\"AlertmanagerReceiversNotConfigured\"} == 1",
      "openshift_sdn_ovs_flows >= 1",
      "increase(prometheus_rule_evaluation_failures_total[1s]) >= 1" }

\* what the backend answers to a query: the number of series of the result, or
\* BackendFailure when the call fails
BackendFailure == -1
Answers == {BackendFailure, 0, 1, 2}

\* the queries whose result-set emptiness does not match the expected outcome
RECURSIVE Mismatches(_, _, _)
MismatchesFirst(queries, tests, backend) ==
    IF queries = {} THEN {}
    ELSE LET q == CHOOSE x \in queries : TRUE
         IN IF (backend[q] > 0) # tests[q] THEN {q}
            ELSE Mismatches(queries \ {q}, tests, backend)

Mismatches(queries, tests, backend) ==
    IF queries = {} THEN {}
    ELSE LET q == CHOOSE x \in queries : TRUE
         IN (IF (backend[q] > 0) # tests[q] THEN {q} ELSE {})
            \cup Mismatches(queries \ {q}, tests, backend)

\* nil, or the aggregated error naming the queries that did not match; a
\* failure of the backend is a failure of the whole call
RunQueries(tests, backend) ==
    IF \E q \in DOMAIN tests : backend[q] = BackendFailure
    THEN [err |-> "backend", queries |-> {}]
    ELSE LET bad == Mismatches(DOMAIN tests, tests, backend)
         IN IF bad = {} THEN [err |-> "", queries |-> {}]
            ELSE [err |-> "aggregate", queries |-> bad]

InitRunQueries ==
    /\ test = "RunQueries"
    /\ pc = "call"
    /\ \E queries \in SUBSET QueryUniverse :
         /\ Cardinality(queries) <= MaxQueries
         /\ args \in [tests : [queries -> BOOLEAN], backend : [queries -> Answers]]
    /\ ret = << >>
    /\ provider = ""
    /\ indexer = << >>
    /\ Idle

CallRunQueries ==
    /\ pc = "call" /\ test = "RunQueries"
    /\ ret' = RunQueries(args.tests, args.backend)
    /\ pc' = "returned"
    /\ UNCHANGED <<provider, targets, lastErrs, insecureTargets, indexer>>
    /\ UNCHANGED <<test, issued, callErr, returned, indicator, result, idx, knownViolations, unexpectedViolations,
                   unexpectedViolationsAsFlakes, debug, failure, flake, logs, elapsed, metrics, args>>

NextRunQueries == CallRunQueries

SpecRunQueries == InitRunQueries /\ [][NextRunQueries]_vars

----------------------------------------------------------------------------
(* The tests that poll the targets: the ingress test, and the metrics-path *)
(* test from the point where Spec leaves it, the service account token     *)
(* having authenticated, to its end                                        *)

\* verifying standard metrics keys
queries ==
    [q \in {"template_router_reload_seconds_count{job=\"router-internal-default\"} >= 1",
            "haproxy_server_up{job=\"router-internal-default\"} >= 1"} |-> TRUE]

IngressQueries ==
    /\ pc = "ingressQueries"
    /\ \E backend \in [DOMAIN queries -> Answers] :
         LET err == RunQueries(queries, backend)
         IN /\ Call("query", err.err = "backend")
            /\ IF err.err # "" THEN ExpectFailed("RunQueries")
               ELSE pc' = "done" /\ UNCHANGED failure
    /\ UNCHANGED <<provider, targets, lastErrs, insecureTargets, indexer>>
    /\ UNCHANGED <<test, returned, indicator, result, idx, knownViolations, unexpectedViolations,
                   unexpectedViolationsAsFlakes, debug, flake, logs, elapsed, metrics, args, ret>>

PollTests == {"MetricsPath", "Ingress"}

\* the metrics-path test when its first attempt has found samples appended
Authenticated ==
    /\ pc = "targets"
    /\ issued = <<"metrics", "root", "graph">>
    /\ callErr = FALSE
    /\ metrics = [name \in MetricNames |-> IF name = "tsdb_head_samples_appended_total" THEN <<1>> ELSE << >>]
    /\ elapsed = 0
    /\ logs = << >>
    /\ failure = NoMsg

InitPolls ==
    /\ test \in PollTests
    /\ provider \in Providers
    /\ IF test = "MetricsPath"
       THEN Authenticated
       ELSE /\ pc = "BeforeEach"
            /\ issued = << >>
            /\ callErr = FALSE
            /\ metrics = << >>
            /\ elapsed = 0
            /\ logs = << >>
            /\ failure = NoMsg
    /\ returned = << >>
    /\ indicator = << >>
    /\ result = << >>
    /\ idx = 0
    /\ knownViolations = {}
    /\ unexpectedViolations = {}
    /\ unexpectedViolationsAsFlakes = {}
    /\ debug = {}
    /\ flake = NoMsg
    /\ targets = << >>
    /\ lastErrs = << >>
    /\ insecureTargets = << >>
    /\ args = << >>
    /\ ret = << >>
    /\ indexer = << >>

NextPolls ==
    \/ BeforeEach
    \/ TargetsSetup
    \/ TargetsAttempt
    \/ SecureChannel
    \/ IngressSetup
    \/ IngressAttempt
    \/ IngressQueries

SpecPolls == InitPolls /\ [][NextPolls]_vars

----------------------------------------------------------------------------
(* prometheusTargets.Expect applied to a response, a selector, a health    *)
(* and a pattern                                                           *)

\* the selectors of the callers, and selectors that ask for an empty value
Selectors ==
    { (ControlPlane \o Common \o Ingress)[i].l : i \in 1..Len(ControlPlane \o Common \o Ingress) }
        \cup { [job |-> ""], [job |-> "kubelet", pod |-> ""], [job |-> "prometheus-k8s", pod |-> "prometheus-k8s-0"] }

Healths == {"up", "down"}

InitExpect ==
    /\ test = "Expect"
    /\ pc = "call"
    /\ args \in [activeTargets : Responses, l : Selectors, health : Healths, scrapeURLPattern : Patterns]
    /\ ret = << >>
    /\ provider = ""
    /\ indexer = << >>
    /\ Idle

CallExpect ==
    /\ pc = "call" /\ test = "Expect"
    /\ ret' = [err |-> Expect(args.activeTargets, args.l, args.health, args.scrapeURLPattern)]
    /\ pc' = "returned"
    /\ UNCHANGED <<provider, targets, lastErrs, insecureTargets, indexer>>
    /\ UNCHANGED <<test, issued, callErr, returned, indicator, result, idx, knownViolations, unexpectedViolations,
                   unexpectedViolationsAsFlakes, debug, failure, flake, logs, elapsed, metrics, args>>

NextExpect == CallExpect

SpecExpect == InitExpect /\ [][NextExpect]_vars

----------------------------------------------------------------------------
(* The lister of applied cluster resource quotas: Get of a namespace       *)
(* lister applied to an indexer, a namespace and a name                    *)

Namespaces == {"ns1", "ns2"}
Names == {"quota-a", "quota-b"}

AppliedClusterResourceQuota(namespace, name) == [Namespace |-> namespace, Name |-> name]

\* the contents of an indexer: the objects of a set, each under the key
\* <namespace>/<name>
Indexed(objects) ==
    [key \in { o.Namespace \o "/" \o o.Name : o \in objects } |->
        CHOOSE o \in objects : o.Namespace \o "/" \o o.Name = key]

Indexers ==
    { Indexed(objects) : objects \in SUBSET { AppliedClusterResourceQuota(namespace, name) :
                                                namespace \in Namespaces, name \in Names } }

\* the error of an indexer whose lookup fails
LookupFailed == [reason |-> "InternalError"]

\* errors.NewNotFound(v1.Resource("appliedclusterresourcequota"), name)
NewNotFound(name) == [reason |-> "NotFound", resource |-> "appliedclusterresourcequota", name |-> name]

\* s.indexer.GetByKey(key): obj, exists, err
GetByKey(store, key, fails) ==
    IF fails THEN [obj |-> Nil, exists |-> FALSE, err |-> LookupFailed]
    ELSE IF key \in DOMAIN store THEN [obj |-> store[key], exists |-> TRUE, err |-> Nil]
    ELSE [obj |-> Nil, exists |-> FALSE, err |-> Nil]

\* (s *appliedClusterResourceQuotaLister) AppliedClusterResourceQuotas(namespace)
AppliedClusterResourceQuotas(store, namespace) == [indexer |-> store, namespace |-> namespace]

\* (s appliedClusterResourceQuotaNamespaceLister) Get(name): the object and
\* the error returned
ListerGetByName(s, name, fails) ==
    LET found == GetByKey(s.indexer, name, fails)
    IN IF found.err # Nil THEN [obj |-> Nil, err |-> found.err]
       ELSE IF ~found.exists THEN [obj |-> Nil, err |-> NewNotFound(name)]
       ELSE [obj |-> found.obj, err |-> Nil]

ListerGet(s, name, fails) ==
    LET found == GetByKey(s.indexer, s.namespace \o "/" \o name, fails)
    IN IF found.err # Nil THEN [obj |-> Nil, err |-> found.err]
       ELSE IF ~found.exists THEN [obj |-> Nil, err |-> NewNotFound(name)]
       ELSE [obj |-> found.obj, err |-> Nil]

InitLister ==
    /\ test = "Get"
    /\ pc = "call"
    /\ indexer \in Indexers
    /\ args \in [namespace : Namespaces, name : Names, fails : BOOLEAN]
    /\ ret = << >>
    /\ provider = ""
    /\ Idle

CallGet ==
    /\ pc = "call" /\ test = "Get"
    /\ ret' = ListerGet(AppliedClusterResourceQuotas(indexer, args.namespace), args.name, args.fails)
    /\ pc' = "returned"
    /\ UNCHANGED <<provider, targets, lastErrs, insecureTargets, indexer>>
    /\ UNCHANGED <<test, issued, callErr, returned, indicator, result, idx, knownViolations, unexpectedViolations,
                   unexpectedViolationsAsFlakes, debug, failure, flake, logs, elapsed, metrics, args>>

NextLister == CallGet

SpecLister == InitLister /\ [][NextLister]_vars

----------------------------------------------------------------------------
(* Properties *)

Range(seq) == { seq[i] : i \in 1..Len(seq) }

\* the series carries every key of the selector with an identical value
Carries(metric, selector) == \A k \in DOMAIN selector : k \in DOMAIN metric /\ metric[k] = selector[k]

MatchesSome(conds, series) == \E i \in 1..Len(conds) : Carries(series.metric, conds[i].Selector)

\* the series of the firing (pending) result the loop has gone through
FiringProcessed ==
    IF pc = "firingLoop" THEN SubSeq(result, 1, idx - 1)
    ELSE IF Len(returned) >= 2 THEN returned[2] ELSE << >>

PendingProcessed ==
    IF pc = "pendingLoop" THEN SubSeq(result, 1, idx - 1)
    ELSE IF Len(returned) >= 3 THEN returned[3] ELSE << >>

\* the description without its parenthesised note
Bare(d) == [d EXCEPT !.note = "", !.text = ""]

Transitions(samples) == Cardinality({ i \in 1..(Len(samples) - 1) : samples[i] # samples[i + 1] })

\* C1: every series of the firing-alerts result that the loop has gone through
\* is in a classification: its violation with the bug reference is in
\* knownViolations when it matches a known-bug condition, and its violation is
\* in unexpectedViolations otherwise.
T_C1 ==
    \A s \in Range(FiringProcessed) :
        IF MatchesSome(firingAlertsWithBugs, s)
        THEN \E i \in 1..Len(firingAlertsWithBugs) :
                OpenBug(FiringViolation(s), firingAlertsWithBugs[i]) \in knownViolations
        ELSE FiringViolation(s) \in unexpectedViolations

W_C1 ==
    /\ pc = "pending"
    /\ \E s \in Range(returned[2]) : MatchesSome(firingAlertsWithBugs, s)
    /\ \E s \in Range(returned[2]) :
         ~MatchesSome(firingAlertsWithBugs, s) /\ FiringViolation(s) \in unexpectedViolations

\* C2: Matches returns a condition exactly when the series carries every key of
\* that condition's selector with an identical value, whatever other labels the
\* series has; it returns nil exactly when no condition of the list is so.
T_C2 ==
    (test = "Matches" /\ pc = "returned") =>
        /\ ret.cause # NoCause =>
              \E i \in 1..Len(args.conds) :
                  args.conds[i] = ret.cause /\ Carries(args.series.metric, ret.cause.Selector)
        /\ ret.cause = NoCause => ~MatchesSome(args.conds, args.series)

\* {alertname: X} matches a series {alertname: X, severity: warning, ...}
W_C2 ==
    /\ test = "Matches" /\ pc = "returned"
    /\ args.conds = allowedPendingAlerts
    /\ "severity" \in DOMAIN args.series.metric
    /\ ret.cause = allowedPendingAlerts[1]

\* C3 as stated: every series that matches no condition, of the firing and of
\* the pending result, is classified unexpected, and the run fails.
CE_C3 ==
    (test = "LateAlerts" /\ pc \in {"done", "failed"} /\ Len(returned) = 3) =>
        /\ \A s \in Range(returned[2]) :
              ~MatchesSome(firingAlertsWithBugs, s) =>
                  FiringViolation(s) \in unexpectedViolations /\ failure.kind = "Failf"
        /\ \A s \in Range(returned[3]) :
              ~MatchesSome(allowedPendingAlerts \o pendingAlertsWithBugs, s) =>
                  PendingViolation(s) \in unexpectedViolations /\ failure.kind = "Failf"

\* C3 amended: a firing series that matches no condition is classified
\* unexpected; once the verdict is computed the run has failed exactly when
\* unexpectedViolations is not empty; a pending series that matches no
\* condition is in unexpectedViolationsAsFlakes and not in unexpectedViolations.
T_C3 ==
    /\ \A s \in Range(FiringProcessed) :
          ~MatchesSome(firingAlertsWithBugs, s) => FiringViolation(s) \in unexpectedViolations
    /\ \A s \in Range(PendingProcessed) :
          ~MatchesSome(allowedPendingAlerts \o pendingAlertsWithBugs, s) =>
              /\ PendingViolation(s) \in unexpectedViolationsAsFlakes
              /\ PendingViolation(s) \notin unexpectedViolations
    /\ (test = "LateAlerts" /\ pc = "done") => unexpectedViolations = {} /\ failure = NoMsg
    /\ (test = "LateAlerts" /\ pc = "failed" /\ Len(returned) = 3) =>
          unexpectedViolations # {} /\ failure.kind = "Failf"
    /\ (pc \in {"watchdog", "firing", "firingLoop", "pending", "pendingLoop", "verdict"}) =>
          failure = NoMsg

\* a run with an unmatched pending series and no unexpected violation ends without failing
W_C3 ==
    /\ test = "LateAlerts" /\ pc = "done"
    /\ \E s \in Range(returned[3]) : ~MatchesSome(allowedPendingAlerts \o pendingAlertsWithBugs, s)
    /\ knownViolations # {}

\* C4: once the watchdog query has returned, the "missing intervals" violation
\* is in unexpectedViolations exactly when the indicator changed two or more
\* times over the window; right after the query it is the only violation
\* recorded, and with zero or one change nothing is recorded.
T_C4 ==
    Len(returned) >= 1 =>
        /\ WatchdogViolation \in unexpectedViolations <=> Transitions(indicator) >= 2
        /\ pc = "firing" =>
              /\ unexpectedViolations = IF Transitions(indicator) >= 2 THEN {WatchdogViolation} ELSE {}
              /\ knownViolations = {} /\ unexpectedViolationsAsFlakes = {} /\ debug = {}

W_C4 ==
    /\ pc = "firing"
    /\ Transitions(indicator) = 2
    /\ unexpectedViolations = {WatchdogViolation}

\* C5: a pending series that matches the allow-list is only logged: its
\* violation, with the reason, is in debug and in no form in knownViolations,
\* unexpectedViolations or unexpectedViolationsAsFlakes; a run in which the
\* only series returned are allow-listed pending alerts ends without failure
\* and without flake.
T_C5 ==
    /\ \A s \in Range(PendingProcessed) :
          MatchesSome(allowedPendingAlerts, s) =>
              /\ \E i \in 1..Len(allowedPendingAlerts) :
                    Allowed(PendingViolation(s), allowedPendingAlerts[i]) \in debug
              /\ \A d \in knownViolations \cup unexpectedViolations \cup unexpectedViolationsAsFlakes :
                    Bare(d) # PendingViolation(s)
    /\ ( /\ test = "LateAlerts" /\ pc \in {"done", "failed"} /\ Len(returned) = 3
         /\ returned[1] = << >> /\ returned[2] = << >>
         /\ \A s \in Range(returned[3]) : MatchesSome(allowedPendingAlerts, s) )
       => pc = "done" /\ failure = NoMsg /\ flake = NoMsg

W_C5 ==
    /\ test = "LateAlerts" /\ pc = "done" /\ Len(returned) = 3
    /\ returned[1] = << >> /\ returned[2] = << >> /\ returned[3] # << >>
    /\ \A s \in Range(returned[3]) : MatchesSome(allowedPendingAlerts, s)
    /\ debug # {} /\ flake = NoMsg

Last(seq) == seq[Len(seq)]

AllSets == <<knownViolations, unexpectedViolations, unexpectedViolationsAsFlakes, debug>>

\* C6 as stated: a backend call that fails aborts the test at that call.
CE_C6 == callErr => pc = "failed" /\ failure.kind = "Expect"

\* C6 amended: a RunQuery of the Late alerts test, or a status-code check, that
\* fails aborts the test at that call: the test has failed on the o.Expect, no
\* later call is issued, and the failing call changes no classification set.  A
\* getInsecureURLViaPod that fails inside the metrics-path poll is logged and
\* the poll goes on, until it times out.
T_C6 ==
    /\ [](callErr =>
            IF Last(issued) = "metrics"
            THEN /\ pc \in {"metricsPoll", "failed"}
                 /\ Last(logs).fmt = "unable to get metrics"
                 /\ pc = "failed" => elapsed >= Timeout
            ELSE pc = "failed" /\ failure.kind = "Expect")
    /\ [][ /\ (callErr /\ Last(issued) # "metrics") => issued' = issued
           /\ (callErr' /\ issued' # issued) => AllSets' = AllSets ]_vars

\* the firing-alerts query fails after the watchdog violation was recorded
W_C6 ==
    /\ callErr /\ pc = "failed"
    /\ issued = << "watchdog", "firing" >>
    /\ unexpectedViolations = {WatchdogViolation}
    /\ failure.kind = "Expect"

\* C7: RunQueries returns nil exactly when every query was answered and the
\* result was non-empty exactly when the expected outcome is true; when every
\* query was answered and some did not match, it returns one aggregated error
\* that names every query that did not match.
T_C7 ==
    (test = "RunQueries" /\ pc = "returned") =>
        LET tests == args.tests
            backend == args.backend
            answered == \A q \in DOMAIN tests : backend[q] # BackendFailure
            bad == { q \in DOMAIN tests : (backend[q] > 0) # tests[q] }
        IN /\ ret.err = "" <=> (answered /\ bad = {})
           /\ (answered /\ bad # {}) => ret.err = "aggregate" /\ ret.queries = bad

W_C7 ==
    /\ test = "RunQueries" /\ pc = "returned"
    /\ ret.err = "aggregate"
    /\ Cardinality(ret.queries) = 2

\* C8: at every point of the Late alerts test knownViolations,
\* unexpectedViolations, unexpectedViolationsAsFlakes and debug are pairwise
\* disjoint.
T_C8 ==
    \A i, j \in 1..4 : i # j => AllSets[i] \cap AllSets[j] = {}

W_C8 ==
    /\ pc = "verdict"
    /\ knownViolations # {} /\ unexpectedViolations # {}
    /\ unexpectedViolationsAsFlakes # {} /\ debug # {}

\* C9: framework.Failf of the Late alerts test is raised only after the three
\* queries were issued and answered; until then no failure is raised and the
\* next query can be issued, whatever was already found; the message has one
\* line per member of unexpectedViolations, and no other line.
T_C9 ==
    /\ (test = "LateAlerts" /\ failure.kind = "Failf" /\ issued # << >>) =>
          /\ issued = << "watchdog", "firing", "pending" >>
          /\ ~callErr
          /\ Range(failure.lines) = unexpectedViolations
          /\ Len(failure.lines) = Cardinality(unexpectedViolations)
    /\ pc = "firing" => failure = NoMsg /\ ENABLED FiringQuery
    /\ pc = "pending" => failure = NoMsg /\ ENABLED PendingQuery

\* the watchdog violation did not stop the run, and is reported with a later one
W_C9 ==
    /\ pc = "failed" /\ failure.kind = "Failf"
    /\ WatchdogViolation \in Range(failure.lines)
    /\ Len(failure.lines) >= 2
    /\ returned[3] # << >>

\* the first condition of the list, in order, that the series carries
FirstCarried(conds, series) ==
    conds[CHOOSE i \in 1..Len(conds) :
            /\ Carries(series.metric, conds[i].Selector)
            /\ \A j \in 1..(i - 1) : ~Carries(series.metric, conds[j].Selector)]

\* C10: when the series matches conditions of the list, Matches returns the
\* first of them in list order, and the text of that condition is the one in
\* the violation that is recorded.
T_C10 ==
    (test = "Matches" /\ pc = "returned" /\ MatchesSome(args.conds, args.series)) =>
        LET c == FirstCarried(args.conds, args.series)
        IN /\ ret.cause = c
           /\ ret.firing.known = {OpenBug(FiringViolation(args.series), c)}
           /\ ret.allowed.debug = {Allowed(PendingViolation(args.series), c)}
           /\ ret.bugs.known = {OpenBug(PendingViolation(args.series), c)}

W_C10 ==
    /\ test = "Matches" /\ pc = "returned"
    /\ Len(args.conds) = 2
    /\ Carries(args.series.metric, args.conds[1].Selector)
    /\ Carries(args.series.metric, args.conds[2].Selector)
    /\ args.conds[1].Text # args.conds[2].Text
    /\ ret.cause = args.conds[1]

\* the labels of a series that are kept in the text of its violation
TextLabels(m) == [k \in DOMAIN m \ {"alertname", "alertstate", "prometheus"} |-> m[k]]

\* the lines of a message that describe the series: same alert name, value and
\* labels, alertname, alertstate and prometheus set aside
LinesFor(msg, verb, s) ==
    { i \in 1..Len(msg.lines) :
        /\ msg.lines[i].verb = verb
        /\ msg.lines[i].alertname = Get(s.metric, "alertname")
        /\ msg.lines[i].value = s.value
        /\ TextLabels(msg.lines[i].labels) = TextLabels(s.metric) }

Unmatched(s) == ~MatchesSome(allowedPendingAlerts \o pendingAlertsWithBugs, s)

LateEnded == test = "LateAlerts" /\ pc \in {"done", "failed"} /\ Len(returned) = 3

\* C11: in the failure message and in the flake message every reported series
\* has exactly one line, however many series of the results have the same
\* alert name, value and labels once alertname, alertstate and prometheus are
\* stripped.
T_C11 ==
    /\ (LateEnded /\ failure.kind = "Failf") =>
          \A s \in Range(returned[2]) :
              ~MatchesSome(firingAlertsWithBugs, s) => Cardinality(LinesFor(failure, "fired", s)) = 1
    /\ (LateEnded /\ flake.kind = "Flakef") =>
          /\ \A s \in Range(returned[2]) : Cardinality(LinesFor(flake, "fired", s)) = 1
          /\ \A s \in Range(returned[3]) : Unmatched(s) => Cardinality(LinesFor(flake, "pending", s)) = 1

\* two different series of the firing result are reported in one line
W_C11 ==
    /\ LateEnded /\ flake.kind = "Flakef"
    /\ Len(returned[2]) = 2 /\ returned[2][1] # returned[2][2]
    /\ Len(flake.lines) = 1

T_C16 ==
    /\ ~(failure.kind = "Failf" /\ flake # NoMsg)
    /\ flake # NoMsg =>
          /\ pc = "done" /\ unexpectedViolations = {}
          /\ Range(flake.lines) = knownViolations \cup unexpectedViolationsAsFlakes
    /\ (LateEnded /\ pc = "failed") =>
          failure.kind = "Failf" /\ Range(failure.lines) = unexpectedViolations
    /\ (LateEnded /\ \A i \in 1..4 : AllSets[i] = {}) =>
          pc = "done" /\ failure = NoMsg /\ flake = NoMsg

\* a run fails on an unexpected violation with known and flaky ones at hand
W_C16 ==
    /\ LateEnded /\ pc = "failed"
    /\ knownViolations # {} /\ unexpectedViolationsAsFlakes # {}
    /\ flake = NoMsg

----------------------------------------------------------------------------
(* The polls of the targets *)

\* target carries every label of l with the same value
CarriesLabels(target, l) == \A k \in DOMAIN l : k \in DOMAIN target.Labels /\ target.Labels[k] = l[k]

\* some active target is the one the expectation asks for
Working(activeTargets, e) ==
    \E i \in 1..Len(activeTargets) :
        /\ CarriesLabels(activeTargets[i], e.l)
        /\ activeTargets[i].Health = e.health
        /\ MatchString(e.scrapeURLPattern, activeTargets[i].ScrapeUrl)

\* what the poll of the running test waits for, and for how long
Expected ==
    IF test = "Ingress" THEN Ingress
    ELSE IF provider # ibmcloud THEN ControlPlane \o Common ELSE Common

PollTimeout == IF test = "Ingress" THEN IngressTimeout ELSE Timeout

Polling == pc \in {"targetsPoll", "ingressPoll"}

TimedOut == pc = "failed" /\ failure.lines = << "timed out waiting for the condition" >>

\* the errors of the expectations that the last response does not meet
Missing == { NoMatch(e.l, e.health, e.scrapeURLPattern) : e \in { x \in Range(Expected) : ~Working(targets, x) } }

\* the step is an attempt of the poll that has fetched and parsed a response
Observed ==
    /\ Polling
    /\ issued' # issued
    /\ failure'.fmt \notin {"getBearerTokenURLViaPod", "json.Unmarshal"}

\* C13: the polls of the targets are attempted every 10 s for at most 2 min
\* (4 min for the ingress test), and what a poll holds after an attempt that
\* failed, the last one before the timeout included, is the state that this
\* attempt observed: lastErrs has one error for each expectation that the
\* response of the attempt does not meet, and no other
CE_C13 ==
    /\ (Polling \/ TimedOut) => \E k \in 0..(PollTimeout \div Interval) : elapsed = k * Interval
    /\ TimedOut => elapsed = PollTimeout
    /\ ((Polling /\ targets # << >>) \/ TimedOut) =>
          /\ Range(lastErrs) = Missing
          /\ Len(lastErrs) = Cardinality(Missing)
          /\ lastErrs # << >>

\* C14: an attempt of the targets poll that observes a working target for
\* every expected job returns true, whatever the earlier attempts observed,
\* on every provider
CE_C14 ==
    [][(Observed /\ test = "MetricsPath" /\ \A i \in 1..Len(Expected) : Working(targets', Expected[i]))
          => pc' = "secure"]_vars

----------------------------------------------------------------------------
(* Expect *)

ExpectReturned == test = "Expect" /\ pc = "returned"

\* target has, for every label of l, the same value, a label that the target
\* does not have counting as the empty value
CarriesOrBlank(target, l) ==
    \A k \in DOMAIN l : IF k \in DOMAIN target.Labels THEN target.Labels[k] = l[k] ELSE l[k] = ""

\* the active targets that meet the call, when `carries` says which targets the
\* selector picks
Meeting(carries(_, _)) ==
    { i \in 1..Len(args.activeTargets) :
        /\ carries(args.activeTargets[i], args.l)
        /\ args.activeTargets[i].Health = args.health
        /\ MatchString(args.scrapeURLPattern, args.activeTargets[i].ScrapeUrl) }

----------------------------------------------------------------------------
(* The secure-channel check *)

\* the step is the check of a response that was fetched and parsed
Checked ==
    /\ pc = "secure"
    /\ issued' # issued
    /\ failure'.fmt \notin {"getBearerTokenURLViaPod", "json.Unmarshal"}

\* the job label of a target; empty for a target without one
JobOf(target) == IF "job" \in DOMAIN target.Labels THEN target.Labels.job ELSE ""

\* the targets outside the exclude list whose scrape URL does not begin with https://
Unsecured(activeTargets) ==
    { i \in 1..Len(activeTargets) :
        /\ JobOf(activeTargets[i]) \notin {"crio", "ovnkube-master", "ovnkube-node"}
        /\ SubSeq(activeTargets[i].ScrapeUrl, 1, 2) # <<"https", "://">> }

\* C17: the secure-channel check passes exactly when no target outside the
\* exclude list has a scrape URL that does not begin with https://; each such
\* target, one without a job label included, gives one error, naming its job,
\* and the test fails; a target of the exclude list gives none
T_C17 ==
    [][Checked =>
          /\ pc' = "done" <=> Unsecured(targets') = {}
          /\ pc' = "failed" <=> Unsecured(targets') # {}
          /\ pc' = "failed" => failure' = Msg("Expect", "some services expose metrics over insecure channel", << >>)
          /\ Len(insecureTargets') = Cardinality(Unsecured(targets'))
          /\ \A i \in Unsecured(targets') : Insecure(JobOf(targets'[i])) \in Range(insecureTargets')
          /\ \A err \in Range(insecureTargets') :
                \E i \in Unsecured(targets') : err = Insecure(JobOf(targets'[i]))]_vars

\* the check fails on a target without a job label only, the response having
\* also an insecure target of the exclude list other than crio
W_C17 ==
    /\ test = "MetricsPath" /\ pc = "failed"
    /\ failure.fmt = "some services expose metrics over insecure channel"
    /\ insecureTargets = << Insecure("") >>
    /\ \E i \in 1..Len(targets) : JobOf(targets[i]) = "ovnkube-node" /\ targets[i].ScrapeUrl[1] = "http"

----------------------------------------------------------------------------
(* The quota lister *)

GetReturned == test = "Get" /\ pc = "returned"

\* the objects of the indexer that have the namespace and the name asked for
Stored == { k \in DOMAIN indexer : indexer[k] = AppliedClusterResourceQuota(args.namespace, args.name) }

\* C18: Get(name) of the lister of a namespace returns the object stored under
\* <namespace>/<name> and no error when there is one, no object and a
\* NotFound error for the name when there is none, no object and the error
\* of the indexer when the lookup fails; the indexer is never changed
T_C18 ==
    /\ [](GetReturned =>
            IF args.fails THEN ret = [obj |-> Nil, err |-> LookupFailed]
            ELSE IF Stored # {}
            THEN ret = [obj |-> AppliedClusterResourceQuota(args.namespace, args.name), err |-> Nil]
            ELSE ret = [obj |-> Nil, err |-> NewNotFound(args.name)])
    /\ [][indexer' = indexer]_vars

\* the name is not found in the namespace asked for, another namespace having
\* an object of that name
W_C18 ==
    /\ GetReturned
    /\ ret = [obj |-> Nil, err |-> NewNotFound(args.name)]
    /\ \E k \in DOMAIN indexer : indexer[k].Name = args.name /\ indexer[k].Namespace # args.namespace
====
